---- MODULE Spec2Model ----
(***************************************************************************)
(* Screen recorder: an orchestrator thread (main) resolves the primary     *)
(* monitor, creates the stop channel, spawns a worker that runs the        *)
(* capture session, sleeps, sends the stop message and joins.  The worker  *)
(* runs Capture::new once and then the frame / closed callbacks.           *)
(***************************************************************************)
EXTENDS Naturals, FiniteSets, Sequences, TLC

\* Counters of frames and callbacks saturate at MaxFrames.
MaxFrames == 3
\* Messages the channel's client may send in SinkSpec.
MaxSends == 2

VARIABLES
    mpc,            \* position of main (orchestrator thread)
    exitCode,       \* "running", "success" (main returned), "failure" (main panicked)
    mainErr,        \* which expect/unwrap of main panicked, "none" if none
    wpc,            \* position of the worker thread
    session,        \* state of the capture session
    cause,          \* what ended the session
    encoder,        \* Capture.encoder: "none" (not built), "some", "taken"
    tx, rx,         \* the two ends of the stop channel: "none", "alive", "dropped"
    pending,        \* messages in the stop channel
    stopRequested,  \* capture_control.stop() has been called
    fileCreated,    \* the encoder has created the output file
    workerOut,      \* what the worker thread printed / how it ended
    sends,          \* messages ever sent on the channel
    recvd,          \* messages ever received from the channel
    callbacks,      \* on_frame_arrived invocations
    framesSent,     \* successful send_frame calls
    framesAfterSend,\* successful send_frame calls after a completed send
    finishCalls,    \* finish invocations
    lastPoll,       \* result of the latest try_recv
    unwrapNone      \* an unwrap of the encoder option met None

vars == <<mpc, exitCode, mainErr, wpc, session, cause, encoder, tx, rx, pending,
          stopRequested, fileCreated, workerOut, sends, recvd, callbacks,
          framesSent, framesAfterSend, finishCalls, lastPoll, unwrapNone>>

mainVars == <<mpc, exitCode, mainErr>>
sinkVars == <<wpc, session, cause, encoder, stopRequested, fileCreated, workerOut,
              recvd, callbacks, framesSent, framesAfterSend, finishCalls,
              lastPoll, unwrapNone>>

Terminal == {"stopped-by-signal", "stopped-by-target-closed", "stopped-by-error"}

\* Positions of the worker once the callbacks have ended the session.
Ended == {"returned", "printing", "done"}

Inc(n) == IF n < MaxFrames THEN n + 1 ELSE n

\* A faulty variant of TryRecv: a disconnected channel is taken for an empty one.
TryRecv_NoDisconnect(p, t) ==
    IF p > 0 THEN "Ok" ELSE "Empty"

\* A faulty variant of TryRecv: every error of try_recv counts as a stop, the
\* empty channel included.
TryRecv_EmptyStops(p, t) ==
    IF p > 0 THEN "Ok" ELSE "Disconnected"

\* Receiver::try_recv: a pending message is delivered even when the sender is
\* gone; Disconnected only when nothing is pending and the sender was dropped.
TryRecv(p, t) ==
    IF p > 0 THEN "Ok" ELSE IF t = "dropped" THEN "Disconnected" ELSE "Empty"

\* The capture backend: the state of the session after a callback returned
\* `result` ("ok" / "err") with or without a stop request.
SessionAfter(result, stop) ==
    IF result = "err" THEN "stopped-by-error"
    ELSE IF stop THEN "stopped-by-signal"
    ELSE "recording"

\* The worker thread runs for as long as the process does: a panic of main
\* ends the process and with it the worker.
Alive == exitCode = "running"

\* The capture backend delivers events one at a time, and only while running.
Delivering == wpc = "loop" /\ session = "recording"

Init ==
    /\ mpc = "primary"
    /\ exitCode = "running"
    /\ mainErr = "none"
    /\ wpc = "unspawned"
    /\ session = "idle"
    /\ cause = "none"
    /\ encoder = "none"
    /\ tx = "none"
    /\ rx = "none"
    /\ pending = 0
    /\ stopRequested = FALSE
    /\ fileCreated = FALSE
    /\ workerOut = "none"
    /\ sends = 0
    /\ recvd = 0
    /\ callbacks = 0
    /\ framesSent = 0
    /\ framesAfterSend = 0
    /\ finishCalls = 0
    /\ lastPoll = "none"
    /\ unwrapNone = FALSE

----
\* main

\* A panic of main: the stack unwinds (dropping the sender if it exists) and
\* the process exits with a failure status.
MainPanic(what) ==
    /\ mpc' = "panic"
    /\ exitCode' = "failure"
    /\ mainErr' = what
    /\ tx' = IF tx = "alive" THEN "dropped" ELSE tx

\* Monitor::primary().expect(..)
MainPrimary(ok) ==
    /\ mpc = "primary"
    /\ IF ok
       THEN mpc' = "channel" /\ UNCHANGED <<exitCode, mainErr, tx>>
       ELSE MainPanic("no-monitor")
    /\ UNCHANGED <<rx, pending, sends>>
    /\ UNCHANGED sinkVars

\* mpsc::channel::<()>()
MainChannel ==
    /\ mpc = "channel"
    /\ mpc' = "width"
    /\ tx' = "alive"
    /\ rx' = "alive"
    /\ UNCHANGED <<exitCode, mainErr, pending, sends>>
    /\ UNCHANGED sinkVars

\* A faulty variant of MainWidth: a missing width is replaced by a default and main goes on.
MainWidth_Default(ok) ==
    /\ mpc = "width"
    /\ mpc' = "height"
    /\ mainErr' = IF ok THEN mainErr ELSE "no-width"
    /\ UNCHANGED <<exitCode, tx, rx, pending, sends>>
    /\ UNCHANGED sinkVars

\* primary_monitor.width().unwrap()
MainWidth(ok) ==
    /\ mpc = "width"
    /\ IF ok
       THEN mpc' = "height" /\ UNCHANGED <<exitCode, mainErr, tx, rx>>
       ELSE MainPanic("no-width") /\ rx' = "dropped"
    /\ UNCHANGED <<pending, sends>>
    /\ UNCHANGED sinkVars

\* primary_monitor.height().unwrap()
MainHeight(ok) ==
    /\ mpc = "height"
    /\ IF ok
       THEN mpc' = "spawn" /\ UNCHANGED <<exitCode, mainErr, tx, rx>>
       ELSE MainPanic("no-height") /\ rx' = "dropped"
    /\ UNCHANGED <<pending, sends>>
    /\ UNCHANGED sinkVars

\* thread::spawn: the settings (with the receiver) move to the worker.
MainSpawn ==
    /\ mpc = "spawn"
    /\ mpc' = "sleep"
    /\ wpc' = "start"
    /\ UNCHANGED <<exitCode, mainErr, tx, rx, pending, sends>>
    /\ UNCHANGED <<session, cause, encoder, stopRequested, fileCreated, workerOut,
                   recvd, callbacks, framesSent, framesAfterSend, finishCalls,
                   lastPoll, unwrapNone>>

\* sleep(60 s) returns
MainSleep ==
    /\ mpc = "sleep"
    /\ mpc' = "send"
    /\ UNCHANGED <<exitCode, mainErr, tx, rx, pending, sends>>
    /\ UNCHANGED sinkVars

\* A faulty variant of MainSend: the stop message is sent twice.
MainSend_Twice ==
    /\ mpc = "send"
    /\ IF rx = "alive"
       THEN /\ mpc' = IF sends >= 1 THEN "join" ELSE "send"
            /\ pending' = pending + 1
            /\ sends' = sends + 1
            /\ UNCHANGED <<exitCode, mainErr, tx>>
       ELSE /\ MainPanic("send")
            /\ UNCHANGED <<pending, sends>>
    /\ UNCHANGED rx
    /\ UNCHANGED sinkVars

\* tx.send(()).unwrap(): send fails once the receiver has been dropped.
MainSend ==
    /\ mpc = "send"
    /\ IF rx = "alive"
       THEN /\ mpc' = "join"
            /\ pending' = pending + 1
            /\ sends' = sends + 1
            /\ UNCHANGED <<exitCode, mainErr, tx>>
       ELSE /\ MainPanic("send")
            /\ UNCHANGED <<pending, sends>>
    /\ UNCHANGED rx
    /\ UNCHANGED sinkVars

\* let _ = recorder_thread.join(); then main returns, dropping tx.
MainJoin ==
    /\ mpc = "join"
    /\ wpc = "done"
    /\ mpc' = "exit"
    /\ exitCode' = "success"
    /\ tx' = "dropped"
    /\ UNCHANGED <<mainErr, rx, pending, sends>>
    /\ UNCHANGED sinkVars

----
\* worker

\* A faulty variant of CaptureNew: the encoder's construction error is swallowed and the
\* session starts without an encoder.
CaptureNew_Swallow(ok, created) ==
    /\ Alive
    /\ wpc = "start"
    /\ encoder' = IF ok THEN "some" ELSE "none"
    /\ fileCreated' = (ok \/ created)
    /\ session' = "recording"
    /\ wpc' = "loop"
    /\ cause' = IF ok THEN cause ELSE "new"
    /\ UNCHANGED <<stopRequested, workerOut, recvd, callbacks, framesSent,
                   framesAfterSend, finishCalls, lastPoll, unwrapNone>>
    /\ UNCHANGED <<tx, rx, pending, sends>>
    /\ UNCHANGED mainVars

\* Capture::start calls Capture::new, which builds the encoder.
CaptureNew(ok, created) ==
    /\ Alive
    /\ wpc = "start"
    /\ IF ok
       THEN /\ encoder' = "some"
            /\ fileCreated' = TRUE
            /\ session' = "recording"
            /\ wpc' = "loop"
            /\ UNCHANGED cause
       ELSE /\ encoder' = "none"
            /\ fileCreated' = created
            /\ session' = SessionAfter("err", FALSE)
            /\ wpc' = "returned"
            /\ cause' = "new"
    /\ UNCHANGED <<stopRequested, workerOut, recvd, callbacks, framesSent,
                   framesAfterSend, finishCalls, lastPoll, unwrapNone>>
    /\ UNCHANGED <<tx, rx, pending, sends>>
    /\ UNCHANGED mainVars

\* A faulty variant of FrameSend: the result of send_frame is discarded and
\* the callback goes on to poll the channel.
FrameSend_IgnoreErr(flushOk, sendOk) ==
    /\ Alive
    /\ Delivering
    /\ callbacks' = Inc(callbacks)
    /\ cause' = IF sendOk THEN cause ELSE "send_frame"
    /\ framesSent' = IF sendOk THEN Inc(framesSent) ELSE framesSent
    /\ wpc' = "polling"
    /\ UNCHANGED <<session, framesAfterSend, unwrapNone>>
    /\ UNCHANGED <<encoder, stopRequested, fileCreated, workerOut, recvd,
                   finishCalls, lastPoll>>
    /\ UNCHANGED <<tx, rx, pending, sends>>
    /\ UNCHANGED mainVars

\* A faulty variant of FrameSend: the callback polls the channel first and
\* forwards the frame only when no stop is seen.
FrameSend_PollFirst(flushOk, sendOk) ==
    /\ Alive
    /\ Delivering
    /\ callbacks' = Inc(callbacks)
    /\ lastPoll' = TryRecv(pending, tx)
    /\ pending' = IF pending > 0 THEN pending - 1 ELSE pending
    /\ recvd' = IF pending > 0 THEN recvd + 1 ELSE recvd
    /\ IF TryRecv(pending, tx) # "Empty"
       THEN /\ encoder' = "taken"
            /\ finishCalls' = Inc(finishCalls)
            /\ stopRequested' = TRUE
            /\ session' = SessionAfter("ok", TRUE)
            /\ cause' = "signal"
            /\ wpc' = "returned"
            /\ UNCHANGED <<framesSent, framesAfterSend>>
       ELSE IF ~sendOk
       THEN /\ session' = SessionAfter("err", FALSE)
            /\ cause' = "send_frame"
            /\ wpc' = "returned"
            /\ UNCHANGED <<encoder, finishCalls, stopRequested, framesSent,
                           framesAfterSend>>
       ELSE /\ framesSent' = Inc(framesSent)
            /\ wpc' = "loop"
            /\ UNCHANGED <<encoder, finishCalls, stopRequested, session, cause,
                           framesAfterSend>>
    /\ UNCHANGED <<fileCreated, workerOut, unwrapNone>>
    /\ UNCHANGED <<tx, rx, sends>>
    /\ UNCHANGED mainVars

\* on_frame_arrived, up to and including send_frame.
FrameSend(flushOk, sendOk) ==
    /\ Alive
    /\ Delivering
    /\ callbacks' = Inc(callbacks)
    /\ IF ~flushOk
       THEN /\ session' = SessionAfter("err", FALSE)
            /\ wpc' = "returned"
            /\ cause' = "flush"
            /\ UNCHANGED <<framesSent, framesAfterSend, unwrapNone>>
       ELSE IF encoder # "some"
       THEN /\ unwrapNone' = TRUE
            /\ wpc' = "returned"
            /\ cause' = "panic"
            /\ UNCHANGED <<session, framesSent, framesAfterSend>>
       ELSE IF ~sendOk
       THEN /\ session' = SessionAfter("err", FALSE)
            /\ wpc' = "returned"
            /\ cause' = "send_frame"
            /\ UNCHANGED <<framesSent, framesAfterSend, unwrapNone>>
       ELSE /\ framesSent' = Inc(framesSent)
            /\ framesAfterSend' = IF sends > 0 THEN Inc(framesAfterSend)
                                  ELSE framesAfterSend
            /\ wpc' = "polling"
            /\ UNCHANGED <<session, cause, unwrapNone>>
    /\ UNCHANGED <<encoder, stopRequested, fileCreated, workerOut, recvd,
                   finishCalls, lastPoll>>
    /\ UNCHANGED <<tx, rx, pending, sends>>
    /\ UNCHANGED mainVars

\* A faulty variant of FramePoll: the encoder is finished through a reference (the slot
\* stays Some) and capture_control.stop() is not called.
FramePoll_KeepEncoder(finishOk) ==
    /\ Alive
    /\ wpc = "polling"
    /\ lastPoll' = TryRecv(pending, tx)
    /\ pending' = IF pending > 0 THEN pending - 1 ELSE pending
    /\ recvd' = IF pending > 0 THEN recvd + 1 ELSE recvd
    /\ finishCalls' = IF TryRecv(pending, tx) = "Empty" THEN finishCalls
                      ELSE Inc(finishCalls)
    /\ wpc' = "loop"
    /\ UNCHANGED <<encoder, stopRequested, session, cause, unwrapNone>>
    /\ UNCHANGED <<fileCreated, workerOut, callbacks, framesSent, framesAfterSend>>
    /\ UNCHANGED <<tx, rx, sends>>
    /\ UNCHANGED mainVars

\* A faulty variant of FramePoll: the encoder is taken and finished, but
\* capture_control.stop() is not called, so the session keeps running.
FramePoll_NoStop(finishOk) ==
    /\ Alive
    /\ wpc = "polling"
    /\ lastPoll' = TryRecv(pending, tx)
    /\ pending' = IF pending > 0 THEN pending - 1 ELSE pending
    /\ recvd' = IF pending > 0 THEN recvd + 1 ELSE recvd
    /\ IF TryRecv(pending, tx) = "Empty"
       THEN UNCHANGED <<encoder, finishCalls>>
       ELSE encoder' = "taken" /\ finishCalls' = Inc(finishCalls)
    /\ wpc' = "loop"
    /\ UNCHANGED <<stopRequested, session, cause, unwrapNone>>
    /\ UNCHANGED <<fileCreated, workerOut, callbacks, framesSent, framesAfterSend>>
    /\ UNCHANGED <<tx, rx, sends>>
    /\ UNCHANGED mainVars

\* A faulty variant of FramePoll: the stop channel is never polled.
FramePoll_NoPoll(finishOk) ==
    /\ Alive
    /\ wpc = "polling"
    /\ wpc' = "loop"
    /\ UNCHANGED <<session, cause, encoder, stopRequested, fileCreated, workerOut,
                   recvd, callbacks, framesSent, framesAfterSend, finishCalls,
                   lastPoll, unwrapNone>>
    /\ UNCHANGED <<tx, rx, pending, sends>>
    /\ UNCHANGED mainVars

\* A faulty variant of FramePoll: capture_control.stop() is called before
\* finish, so a failing finish leaves the stop requested.
FramePoll_StopFirst(finishOk) ==
    /\ Alive
    /\ wpc = "polling"
    /\ lastPoll' = TryRecv(pending, tx)
    /\ pending' = IF pending > 0 THEN pending - 1 ELSE pending
    /\ recvd' = IF pending > 0 THEN recvd + 1 ELSE recvd
    /\ IF TryRecv(pending, tx) = "Empty"
       THEN /\ wpc' = "loop"
            /\ UNCHANGED <<encoder, finishCalls, stopRequested, session, cause>>
       ELSE /\ encoder' = "taken"
            /\ finishCalls' = Inc(finishCalls)
            /\ stopRequested' = TRUE
            /\ session' = SessionAfter(IF finishOk THEN "ok" ELSE "err", TRUE)
            /\ cause' = IF finishOk THEN "signal" ELSE "finish"
            /\ wpc' = "returned"
    /\ UNCHANGED <<fileCreated, workerOut, callbacks, framesSent, framesAfterSend,
                   unwrapNone>>
    /\ UNCHANGED <<tx, rx, sends>>
    /\ UNCHANGED mainVars

\* on_frame_arrived, from try_recv to the return.
FramePoll(finishOk) ==
    /\ Alive
    /\ wpc = "polling"
    /\ lastPoll' = TryRecv(pending, tx)
    /\ pending' = IF pending > 0 THEN pending - 1 ELSE pending
    /\ recvd' = IF pending > 0 THEN recvd + 1 ELSE recvd
    /\ IF TryRecv(pending, tx) = "Empty"
       THEN /\ wpc' = "loop"
            /\ session' = SessionAfter("ok", FALSE)
            /\ UNCHANGED <<encoder, finishCalls, stopRequested, cause, unwrapNone>>
       ELSE IF encoder # "some"
       THEN /\ unwrapNone' = TRUE
            /\ wpc' = "returned"
            /\ cause' = "panic"
            /\ UNCHANGED <<encoder, finishCalls, stopRequested, session>>
       ELSE /\ encoder' = "taken"
            /\ finishCalls' = Inc(finishCalls)
            /\ stopRequested' = finishOk
            /\ session' = SessionAfter(IF finishOk THEN "ok" ELSE "err", finishOk)
            /\ cause' = IF finishOk THEN "signal" ELSE "finish"
            /\ wpc' = "returned"
            /\ UNCHANGED unwrapNone
    /\ UNCHANGED <<fileCreated, workerOut, callbacks, framesSent, framesAfterSend>>
    /\ UNCHANGED <<tx, rx, sends>>
    /\ UNCHANGED mainVars

\* A faulty variant of OnClosed: the handler returns an error.
OnClosed_Err ==
    /\ Alive
    /\ Delivering
    /\ session' = SessionAfter("err", FALSE)
    /\ cause' = "closed"
    /\ wpc' = "returned"
    /\ UNCHANGED <<encoder, stopRequested, fileCreated, workerOut, recvd, callbacks,
                   framesSent, framesAfterSend, finishCalls, lastPoll, unwrapNone>>
    /\ UNCHANGED <<tx, rx, pending, sends>>
    /\ UNCHANGED mainVars

\* A faulty variant of OnClosed: the handler finalizes the encoder.
OnClosed_Finalize ==
    /\ Alive
    /\ Delivering
    /\ session' = "stopped-by-target-closed"
    /\ cause' = "closed"
    /\ wpc' = "returned"
    /\ encoder' = "taken"
    /\ finishCalls' = Inc(finishCalls)
    /\ UNCHANGED <<stopRequested, fileCreated, workerOut, recvd, callbacks,
                   framesSent, framesAfterSend, lastPoll, unwrapNone>>
    /\ UNCHANGED <<tx, rx, pending, sends>>
    /\ UNCHANGED mainVars

\* on_closed: prints and returns Ok; the backend ends the session.
OnClosed ==
    /\ Alive
    /\ Delivering
    /\ session' = "stopped-by-target-closed"
    /\ cause' = "closed"
    /\ wpc' = "returned"
    /\ UNCHANGED <<encoder, stopRequested, fileCreated, workerOut, recvd, callbacks,
                   framesSent, framesAfterSend, finishCalls, lastPoll, unwrapNone>>
    /\ UNCHANGED <<tx, rx, pending, sends>>
    /\ UNCHANGED mainVars

\* A faulty variant of WorkerReturn: a session that ended with an error is
\* started again.
WorkerReturn_Retry ==
    /\ Alive
    /\ wpc = "returned"
    /\ IF session = "stopped-by-error"
       THEN /\ wpc' = "start"
            /\ session' = "idle"
            /\ UNCHANGED rx
       ELSE /\ wpc' = "printing"
            /\ rx' = "dropped"
            /\ UNCHANGED session
    /\ UNCHANGED <<cause, encoder, stopRequested, fileCreated, workerOut, recvd,
                   callbacks, framesSent, framesAfterSend, finishCalls, lastPoll,
                   unwrapNone>>
    /\ UNCHANGED <<tx, pending, sends>>
    /\ UNCHANGED mainVars

\* Capture::start returns to the worker's closure: the settings, the handler
\* and with them the receiver are dropped.
WorkerReturn ==
    /\ Alive
    /\ wpc = "returned"
    /\ wpc' = "printing"
    /\ rx' = "dropped"
    /\ UNCHANGED <<session, cause, encoder, stopRequested, fileCreated, workerOut,
                   recvd, callbacks, framesSent, framesAfterSend, finishCalls,
                   lastPoll, unwrapNone>>
    /\ UNCHANGED <<tx, pending, sends>>
    /\ UNCHANGED mainVars

\* The closure prints the outcome and the thread ends.
WorkerFinish ==
    /\ Alive
    /\ wpc = "printing"
    /\ wpc' = "done"
    /\ workerOut' = IF cause = "panic" THEN "panic"
                    ELSE IF session = "stopped-by-error" THEN "error-printed"
                    ELSE "ended-successfully"
    /\ UNCHANGED <<session, cause, encoder, stopRequested, fileCreated, recvd,
                   callbacks, framesSent, framesAfterSend, finishCalls, lastPoll,
                   unwrapNone>>
    /\ UNCHANGED <<tx, rx, pending, sends>>
    /\ UNCHANGED mainVars

----
Worker ==
    \/ \E ok \in BOOLEAN, created \in BOOLEAN : CaptureNew(ok, created)
    \/ \E flushOk \in BOOLEAN, sendOk \in BOOLEAN : FrameSend(flushOk, sendOk)
    \/ \E finishOk \in BOOLEAN : FramePoll(finishOk)
    \/ OnClosed
    \/ WorkerReturn
    \/ WorkerFinish

Main ==
    \/ \E ok \in BOOLEAN : MainPrimary(ok)
    \/ MainChannel
    \/ \E ok \in BOOLEAN : MainWidth(ok)
    \/ \E ok \in BOOLEAN : MainHeight(ok)
    \/ MainSpawn
    \/ MainSleep
    \/ MainSend
    \/ MainJoin

Next == Main \/ Worker

Spec == Init /\ [][Next]_vars

\* The scheduler runs both threads, the sleep ends, and the backend keeps
\* delivering frames while the session runs; the target need never close.
Fairness ==
    /\ WF_vars(Main)
    /\ WF_vars(\E ok \in BOOLEAN, created \in BOOLEAN : CaptureNew(ok, created))
    /\ WF_vars(\E flushOk \in BOOLEAN, sendOk \in BOOLEAN : FrameSend(flushOk, sendOk))
    /\ WF_vars(\E finishOk \in BOOLEAN : FramePoll(finishOk))
    /\ WF_vars(WorkerReturn)
    /\ WF_vars(WorkerFinish)

FairSpec == Spec /\ Fairness

----
\* The frame sink driven by an arbitrary client of the stop channel: the
\* session is started with a live channel, and the holder of the sender may
\* send and drop in any order.

InitSink ==
    /\ mpc = "client"
    /\ exitCode = "running"
    /\ mainErr = "none"
    /\ wpc = "start"
    /\ session = "idle"
    /\ cause = "none"
    /\ encoder = "none"
    /\ tx = "alive"
    /\ rx = "alive"
    /\ pending = 0
    /\ stopRequested = FALSE
    /\ fileCreated = FALSE
    /\ workerOut = "none"
    /\ sends = 0
    /\ recvd = 0
    /\ callbacks = 0
    /\ framesSent = 0
    /\ framesAfterSend = 0
    /\ finishCalls = 0
    /\ lastPoll = "none"
    /\ unwrapNone = FALSE

\* Sender::send while the receiver lives.
SenderSend ==
    /\ tx = "alive"
    /\ rx = "alive"
    /\ sends < MaxSends
    /\ pending' = pending + 1
    /\ sends' = sends + 1
    /\ UNCHANGED <<tx, rx>>
    /\ UNCHANGED mainVars
    /\ UNCHANGED sinkVars

\* The sender is dropped.
SenderDrop ==
    /\ tx = "alive"
    /\ tx' = "dropped"
    /\ UNCHANGED <<rx, pending, sends>>
    /\ UNCHANGED mainVars
    /\ UNCHANGED sinkVars

NextSink == SenderSend \/ SenderDrop \/ Worker

SinkSpec == InitSink /\ [][NextSink]_vars

----
\* Properties

\* A step in which a frame callback polls the stop channel and returns.
PollStep == wpc = "polling" /\ wpc' # "polling"

\* The channel as the poll finds it: a pending message, or no sender left.
StopSeen == pending > 0 \/ tx = "dropped"

\* The session ended by a failure or by the target closing.
Faults == {"new", "flush", "send_frame", "finish", "closed", "panic"}

\* C1: over any sequence of frame callbacks, stop messages, sender drops and
\* target-closed events, finish is invoked at most once per session.
C1_FinishAtMostOnce == finishCalls <= 1

\* C1 witness: finish was invoked and the session is over while the channel
\* still reports a stop (another message pending, or the sender dropped).
C1_Witness ==
    finishCalls = 1 /\ wpc = "done" /\ pending > 0 /\ tx = "dropped"

\* C2 as stated: whenever the poll finds a pending message or a disconnected
\* channel the encoder is finalized and the session stop is requested; an
\* empty, connected channel lets recording continue.
C2_StopAlwaysRequested ==
    [][PollStep =>
         IF StopSeen
         THEN /\ encoder' = "taken"
              /\ finishCalls' = finishCalls + 1
              /\ stopRequested'
              /\ session' = "stopped-by-signal"
         ELSE /\ encoder' = "some"
              /\ finishCalls' = finishCalls
              /\ ~stopRequested'
              /\ session' = "recording"
              /\ wpc' = "loop"]_vars

\* C2 amended: a pending message and a disconnected channel lead to the same
\* outcome: the encoder is taken and finish is invoked, and the callback
\* returns; stop is requested (session stopped-by-signal) exactly when finish
\* succeeded, otherwise the session ends stopped-by-error with no stop
\* request.  Only an empty, connected channel lets recording continue.
C2_SignalEqualsDisconnect ==
    [][PollStep =>
         IF StopSeen
         THEN /\ lastPoll' \in {"Ok", "Disconnected"}
              /\ encoder' = "taken"
              /\ finishCalls' = finishCalls + 1
              /\ wpc' = "returned"
              /\ \/ stopRequested' /\ session' = "stopped-by-signal" /\ cause' = "signal"
                 \/ ~stopRequested' /\ session' = "stopped-by-error" /\ cause' = "finish"
         ELSE /\ lastPoll' = "Empty"
              /\ encoder' = "some"
              /\ finishCalls' = finishCalls
              /\ ~stopRequested'
              /\ session' = "recording"
              /\ wpc' = "loop"]_vars

\* C2 witness: a poll met a disconnected channel with nothing pending and the
\* session stopped by it.
C2_Witness ==
    lastPoll = "Disconnected" /\ session = "stopped-by-signal" /\ sends = 0

\* C3: after main's send has completed at most one frame is forwarded to the
\* encoder, and the callback that forwarded it ends the session.
C3_StopLatency ==
    /\ framesAfterSend <= 1
    /\ framesAfterSend = 1 => wpc \in {"polling"} \cup Ended

\* C3 witness: one frame was forwarded after the send and the session stopped.
C3_Witness ==
    framesAfterSend = 1 /\ framesSent > 1 /\ session = "stopped-by-signal"
        /\ finishCalls = 1

C5_ExitAlwaysSuccess ==
    cause \in {"new", "flush", "send_frame", "finish", "closed"} =>
        (mainErr = "none" /\ exitCode # "failure")

\* C6: when the primary display or its width or height cannot be obtained,
\* main terminates with no worker spawned, no encoder built, no file created.
C6_DisplayFailureIsEarly ==
    mainErr \in {"no-monitor", "no-width", "no-height"} =>
        /\ mpc = "panic"
        /\ wpc = "unspawned"
        /\ session = "idle"
        /\ encoder = "none"
        /\ ~fileCreated

\* C6 witness: the width could not be read, after the channel was created.
C6_Witness == mainErr = "no-width" /\ mpc = "panic" /\ rx = "dropped"

\* C7: when the encoder cannot be constructed the session ends at once in
\* stopped-by-error: no frame callback runs, no frame reaches an encoder and
\* finish is never invoked.
C7_NewFailureIsFatal ==
    cause = "new" =>
        /\ session = "stopped-by-error"
        /\ wpc \in Ended
        /\ encoder = "none"
        /\ callbacks = 0
        /\ framesSent = 0
        /\ finishCalls = 0
        /\ ~stopRequested

\* C7 witness: the worker thread has ended after a failed construction.
C7_Witness == cause = "new" /\ wpc = "done" /\ workerOut = "error-printed"

\* C8: when the target closes, the session ends stopped-by-target-closed and
\* no message has been received from the stop channel.
C8_ClosedNeedsNoSignal ==
    cause = "closed" =>
        /\ session = "stopped-by-target-closed"
        /\ recvd = 0
        /\ lastPoll \in {"none", "Empty"}
        /\ ~stopRequested

\* C8 witness: the target closed while main still sleeps and holds the sender.
C8_Witness ==
    cause = "closed" /\ mpc = "sleep" /\ sends = 0 /\ tx = "alive" /\ wpc = "done"

\* C9: send_frame and finish meet the encoder present; once it is taken the
\* session is over and no callback runs again.
C9_EncoderPresentWhenUsed ==
    /\ ~unwrapNone
    /\ wpc = "polling" => encoder = "some"
    /\ Delivering => encoder = "some"
    /\ (framesSent > 0 \/ finishCalls > 0) => encoder # "none"
    /\ encoder = "taken" => (finishCalls = 1 /\ wpc \in Ended
                              /\ session \in Terminal)

\* C9 witness: the encoder was taken after several frames and the thread ended.
C9_Witness == encoder = "taken" /\ framesSent >= 2 /\ wpc = "done"

\* C10: when the session ends through on_closed, finish has not been invoked
\* and the encoder is still present.
C10_ClosedLeavesEncoder ==
    cause = "closed" => (finishCalls = 0 /\ encoder = "some")

\* C10 witness: frames were recorded, the target closed, the thread ended.
C10_Witness ==
    cause = "closed" /\ framesSent > 0 /\ wpc = "done" /\ encoder = "some"

\* C11 as stated: main never terminates before the worker thread has
\* terminated, and after its send it stays blocked in join for as long as the
\* worker has not ended.
C11_MainOutlivesWorker ==
    /\ mpc \in {"exit", "panic"} => wpc \in {"unspawned", "done"}
    /\ (mpc = "join" /\ wpc # "done") => ~ENABLED Main

\* The step in which send_frame fails.
SendFrameFails == cause # "send_frame" /\ cause' = "send_frame"

\* C12: a failing send_frame ends the callback at once: the channel is not
\* polled, finish is not invoked, stop is not requested, and the session ends
\* stopped-by-error with the encoder still present.
C12_SendFrameFailureIsFatal ==
    /\ [](cause = "send_frame" =>
            /\ session = "stopped-by-error"
            /\ wpc \in Ended
            /\ encoder = "some"
            /\ finishCalls = 0
            /\ ~stopRequested
            /\ recvd = 0
            /\ lastPoll \in {"none", "Empty"})
    /\ [][SendFrameFails =>
            /\ wpc = "loop" /\ wpc' = "returned"
            /\ UNCHANGED <<pending, recvd, lastPoll, finishCalls, framesSent>>]_vars

\* C12 witness: send_frame failed on a later frame while the stop message was
\* already waiting in the channel.
C12_Witness ==
    cause = "send_frame" /\ framesSent > 0 /\ pending = 1 /\ wpc = "done"

\* What a step may change once the session is in a terminal state.
TerminalStays ==
    /\ session' = session
    /\ wpc' \in Ended
    /\ UNCHANGED <<cause, encoder, callbacks, framesSent, finishCalls>>
    /\ UNCHANGED <<recvd, stopRequested>>

\* C13: a terminal session state is final: the state does not change, the
\* session is not started again, no callback runs and no frame reaches the
\* encoder; and a worker that has ended has reached a terminal state.
C13_TerminalIsFinal ==
    /\ [](session \in Terminal <=> wpc \in Ended)
    /\ [][(session \in Terminal) => TerminalStays]_vars

\* C13 witness: the thread ended after an error on a later frame, with the
\* stop message still waiting.
C13_Witness ==
    session = "stopped-by-error" /\ wpc = "done" /\ callbacks > 1 /\ pending = 1
        /\ cause = "flush"

\* C14: one message at most is ever sent on the stop channel, it is sent by
\* main after its sleep, and the channel never holds more than one message.
C14_SingleStopMessage ==
    /\ [](/\ sends <= 1
          /\ pending <= 1
          /\ pending + recvd = sends
          /\ sends = 1 <=> mpc \in {"join", "exit"})
    /\ [][sends' # sends => (mpc = "send" /\ mpc' = "join" /\ sends' = sends + 1)]_vars

\* C14 witness: the one message is in the channel while main waits in join.
C14_Witness == sends = 1 /\ pending = 1 /\ mpc = "join" /\ wpc = "loop"

\* Main has spawned the worker and has not sent yet: it sleeps, or has just
\* woken, and holds the sender.
BeforeSend == mpc \in {"sleep", "send"}

\* A step in which a frame callback starts (and, on a failure, also ends).
FrameStep == wpc = "loop" /\ wpc' # "loop" /\ cause' # "closed"

\* What a frame callback leaves behind when nothing stops the recording.
StillRecording == encoder' = "some" /\ session' = "recording"

\* C15 as stated: finish is invoked only after main's send or the sender's
\* drop, and while main has not sent every frame callback leaves the encoder
\* present and the session running.
C15_CallbacksKeepRunning ==
    /\ [](finishCalls > 0 => (sends > 0 \/ tx = "dropped"))
    /\ [][(BeforeSend /\ (FrameStep \/ PollStep)) => StillRecording]_vars

\* C15 amended: finish is invoked only after main's send or the sender's
\* drop; while main has not sent, every poll finds the channel empty and
\* leaves the encoder present and the session running, and a callback ends
\* the session only by a failing flush or send_frame, the encoder present.
C15_NoPrematureFinish ==
    /\ [](finishCalls > 0 => (sends > 0 \/ tx = "dropped"))
    /\ [](BeforeSend => (/\ encoder # "taken"
                         /\ ~stopRequested
                         /\ session # "stopped-by-signal"
                         /\ lastPoll \in {"none", "Empty"}))
    /\ [][(BeforeSend /\ PollStep) =>
            (lastPoll' = "Empty" /\ wpc' = "loop" /\ StillRecording)]_vars
    /\ [][(BeforeSend /\ FrameStep) =>
            (/\ encoder' = "some"
             /\ finishCalls' = 0
             /\ \/ session' = "recording" /\ wpc' = "polling"
                \/ session' = "stopped-by-error" /\ cause' \in {"flush", "send_frame"})]_vars

\* C15 witness: main sleeps, several callbacks polled an empty channel and the
\* recording goes on.
C15_Witness ==
    mpc = "sleep" /\ lastPoll = "Empty" /\ framesSent >= 2 /\ wpc = "loop"
        /\ encoder = "some" /\ session = "recording"

\* C16: when finish fails the error is returned before stop is requested:
\* the session ends stopped-by-error, the stop message is consumed, and the
\* encoder is taken, never to be finalized or fed again.
C16_FinishFailureIsFatal ==
    /\ [](cause = "finish" =>
            /\ session = "stopped-by-error"
            /\ wpc \in Ended
            /\ ~stopRequested
            /\ encoder = "taken"
            /\ finishCalls = 1
            /\ lastPoll = "Ok"
            /\ recvd = 1
            /\ pending = 0)
    /\ [][(cause = "finish") => UNCHANGED <<encoder, finishCalls, framesSent, callbacks>>]_vars

\* C16 witness: finish failed, the worker ended and main's join returned.
C16_Witness ==
    cause = "finish" /\ wpc = "done" /\ mpc = "exit" /\ workerOut = "error-printed"

\* C17: the frame is forwarded before the channel is polled: when finish is
\* invoked every callback so far, the stopping one included, has forwarded its
\* frame, so the encoder is never finalized with zero frames.
C17_FrameBeforePoll ==
    /\ wpc = "polling" => (framesSent >= 1 /\ framesSent = callbacks)
    /\ finishCalls > 0 => (framesSent >= 1 /\ framesSent = callbacks)

\* C17 witness: the stop was observed on the very first frame, which was
\* forwarded before the encoder was finalized.
C17_Witness ==
    finishCalls = 1 /\ callbacks = 1 /\ framesSent = 1
        /\ session = "stopped-by-signal"

====
